---- MODULE Spec2Model ----
(***************************************************************************)
(* A model of schism's boundary-condition grouping                         *)
(* (schism/conditions/boundary_conditions.py) and of the skin of modified  *)
(* points (schism/geometry/skin.py).                                       *)
(*                                                                         *)
(* Three specifications share the module's variables:                      *)
(*   SpecSkin   ModifiedSkin(deriv, geometry), stencil_footprint included  *)
(*   SpecBC     BoundaryCondition(eq, funcs)                               *)
(*   SpecGroup  BoundaryConditions(eqs, funcs)                             *)
(* Arrays are sequences (1-based); an array index i of the source is the   *)
(* integer i here, so a grid point of axis extent n has indices 0..n-1.    *)
(***************************************************************************)
EXTENDS Integers, Sequences, FiniteSets, TLC

VARIABLES
    \* ---- ModifiedSkin ----
    grid_shape,       \* geometry.grid.shape, a tuple of D extents
    boundary_points,  \* geometry.boundary_points, the columns of bp
    interior_mask,    \* geometry.interior_mask, grid point -> BOOLEAN
    deriv,            \* [space_order, dims] of the derivative
    fp,               \* stencil_footprint(deriv), as its sequence of columns
    mp,               \* the local mp of _get_points, as its sequence of columns
    dim,              \* loop variable of the trimming loop (1-based)
    mod_points,       \* self._mod_points: a tuple of D index arrays, or Unset
    skin_pc,
    \* ---- BoundaryCondition ----
    eq,               \* self._eq: [rhs, lhs, derivs]
    funcs_arg,        \* the funcs argument: None or Some(tuple of fields)
    bc_funcs,         \* self._funcs: Unset, then Some(tuple)
    bc_dims,          \* self._dims: Unset, then None or Some(tuple)
    derivs_left,      \* derivatives the loop of line 91 has yet to visit
    dims_acc,         \* the local set dims of _get_derivative_dimensions
    bc_pc,
    \* ---- BoundaryConditions ----
    in_eqs,           \* the set of flattened equations, set(eq_list)
    in_funcs,         \* the funcs argument: None or a set of fields
    self_funcs,       \* self._funcs
    self_eqs,         \* self._eqs
    bcs_acc,          \* the list the comprehension of line 249 is building
    bcs,              \* self._bcs
    f_graph,          \* the local f_graph: [nodes, edges]
    f_groups,         \* the local f_groups
    bc_groups,        \* the local bc_groups
    f_map,            \* the local f_map
    g_i,              \* loop index of the loop in progress (1-based)
    g_pc

skinVars == <<grid_shape, boundary_points, interior_mask, deriv, fp, mp, dim,
              mod_points, skin_pc>>
bcVars == <<eq, funcs_arg, bc_funcs, bc_dims, derivs_left, dims_acc, bc_pc>>
groupVars == <<in_eqs, in_funcs, self_funcs, self_eqs, bcs_acc, bcs, f_graph,
               f_groups, bc_groups, f_map, g_i, g_pc>>
vars == <<skinVars, bcVars, groupVars>>

\* A value that may be missing is a tuple: Unset for an attribute that has
\* not been assigned, None for Python's None, Some(v) for the value v.
Unset == <<>>
None == <<"None">>
Some(v) == <<"some", v>>
Val(o) == o[2]

\* ------------------------------------------------------------------ bounds
MaxPoints == 6     \* the grid has at most this many points
MaxBP == 2         \* at most this many boundary points
MaxOrder == 2      \* space orders 1..MaxOrder
MaxTerms == 2      \* retrieve_functions(lhs) returns at most this many entries
MaxDerivs == 2     \* the left-hand side holds at most this many derivatives
MaxEqs == 2        \* BoundaryConditions is given at most this many equations

\* ------------------------------------------------------- helper arithmetic
\* Python's a // b for b > 0 is the floor; so is \div.
FloorDiv(a, b) == a \div b

RECURSIVE Prod(_)
Prod(s) == IF s = <<>> THEN 1 ELSE Head(s) * Prod(Tail(s))

RECURSIVE Power(_, _)
Power(b, e) == IF e = 0 THEN 1 ELSE b * Power(b, e - 1)

Range(s) == {s[i] : i \in 1..Len(s)}

\* np.arange(a, b) for integers
arange(a, b) == [i \in 1..(IF b > a THEN b - a ELSE 0) |-> a + i - 1]

\* ------------------------------------------------------ the field's axes
\* deriv.expr.space_dimensions: the axes of a field on a 2D grid
space_dimensions == <<"x", "y">>
D == Len(space_dimensions)

\* ------------------------------------------------------ stencil_footprint
\* the span of one axis (lines 12-15); -s_o//2 parses as (-s_o)//2
SpanNoEndpoint(dm, dv) ==
    IF dm \in dv.dims
    THEN arange(FloorDiv(-dv.space_order, 2), FloorDiv(dv.space_order, 2))
    ELSE <<0>>

Span(dm, dv) ==
    IF dm \in dv.dims
    THEN arange(FloorDiv(-dv.space_order, 2), FloorDiv(dv.space_order, 2) + 1)
    ELSE <<0>>

spans(dv) == [d \in 1..D |-> Span(space_dimensions[d], dv)]

\* np.meshgrid(*spans, indexing='xy'): the output arrays have the first two
\* axes swapped, shape (N2, N1, N3, ...); array a of the result holds
\* spans[a] along its own axis.  MeshAxes lists the axes in storage order.
MeshAxes == IF D >= 2 THEN <<2, 1>> \o [i \in 1..(D - 2) |-> i + 2] ELSE <<1>>

MeshShape(sp) == [k \in 1..D |-> Len(sp[MeshAxes[k]])]

\* the multi-index (per storage position) of flat index n (0-based) of a
\* C-ordered array of shape shp: the last position varies fastest
Unravel(n, shp) ==
    [k \in 1..Len(shp) |->
        (n \div Prod(SubSeq(shp, k + 1, Len(shp)))) % shp[k]]

\* position of axis a in the storage order
MeshPos(a) == CHOOSE k \in 1..D : MeshAxes[k] = a

\* m.flatten() for each m, then np.vstack(...).astype(int): column n of the
\* (D, K) matrix
FootprintColumn(sp, n) ==
    LET idx == Unravel(n, MeshShape(sp))
    IN  [a \in 1..D |-> sp[a][idx[MeshPos(a)] + 1]]

stencil_footprint(dv) ==
    LET sp == spans(dv)
        K == Prod(MeshShape(sp))
    IN  [n \in 1..K |-> FootprintColumn(sp, n - 1)]

\* ------------------------------------------------------------ _get_points
\* lines 53-54: mp[:, n, k] = bp[:, n] + fp[:, k], reshaped to (D, N*K), so
\* that column n*K + k is bp[:, n] + fp[:, k]
BroadcastSum(bp, f) ==
    LET K == Len(f)
    IN  [c \in 1..(Len(bp) * K) |->
            LET n == (c - 1) \div K
                k == (c - 1) % K
            IN  [d \in 1..D |-> bp[n + 1][d] + f[k + 1][d]]]

\* lexicographic order of two columns, first row first
RECURSIVE LexLess(_, _)
LexLess(a, b) ==
    IF a = <<>> THEN FALSE
    ELSE IF Head(a) # Head(b) THEN Head(a) < Head(b)
    ELSE LexLess(Tail(a), Tail(b))

\* the columns of a set in that order, smallest first
RECURSIVE SortedCols(_)
SortedCols(S) ==
    IF S = {} THEN <<>>
    ELSE LET m == CHOOSE a \in S : \A b \in S \ {a} : LexLess(a, b)
         IN  <<m>> \o SortedCols(S \ {m})

\* line 57: np.unique(mp, axis=1): the distinct columns, sorted
UniqueKeepAll(a) == a

Unique(a) == SortedCols(Range(a))

\* line 62: the mask of one axis of the trimming loop
TrimMaskNoLower(col, dm, shape) == col[dm] < shape[dm]

TrimMask(col, dm, shape) == col[dm] >= 0 /\ col[dm] < shape[dm]

\* line 63: mp[:, mask]
Trim(a, dm, shape) == SelectSeq(a, LAMBDA col : TrimMask(col, dm, shape))

\* numpy's integer indexing of one axis of extent n: negative indices count
\* from the end, anything else outside raises IndexError
IndexOK(i, n) == -n <= i /\ i < n
NormIndex(i, n) == IF i < 0 THEN i + n ELSE i

\* line 67: self.geometry.interior_mask[all_points]; index arrays of no
\* element select nothing and raise nothing
CanIndexNonEmpty(a, shape) ==
    /\ a # <<>>
    /\ \A c \in 1..Len(a) : \A d \in 1..D : IndexOK(a[c][d], shape[d])

CanIndex(a, shape) ==
    \A c \in 1..Len(a) : \A d \in 1..D : IndexOK(a[c][d], shape[d])

MaskAt(mask, col, shape) == mask[[d \in 1..D |-> NormIndex(col[d], shape[d])]]

\* line 68: mp[:, interior_mask]
InteriorFilterAll(a, mask, shape) == a

InteriorFilter(a, mask, shape) ==
    SelectSeq(a, LAMBDA col : MaskAt(mask, col, shape))

\* lines 66 and 70: tuple([mp[i] for i in range(mp.shape[0])]), the rows
RowsOf(a) == [d \in 1..D |-> [c \in 1..Len(a) |-> a[c][d]]]

\* ------------------------------------------------- objects not under study
\* Each specification constructs one kind of object; the variables of the
\* others stay at these values.
SkinIdle ==
    /\ grid_shape = None /\ boundary_points = None /\ interior_mask = None
    /\ deriv = None /\ fp = None /\ mp = None /\ dim = None
    /\ mod_points = None /\ skin_pc = "idle"

BCIdle ==
    /\ eq = None /\ funcs_arg = None /\ bc_funcs = Unset /\ bc_dims = Unset
    /\ derivs_left = {} /\ dims_acc = {} /\ bc_pc = "idle"

GroupIdle ==
    /\ in_eqs = None /\ in_funcs = None /\ self_funcs = Unset
    /\ self_eqs = Unset /\ bcs_acc = <<>> /\ bcs = Unset /\ f_graph = Unset
    /\ f_groups = Unset /\ bc_groups = Unset /\ f_map = Unset /\ g_i = 0
    /\ g_pc = "idle"

\* ------------------------------------------------------------ the inputs
GridShapes ==
    {s \in [1..D -> 1..MaxPoints] : Prod(s) <= MaxPoints}

GridPoints(shape) == {p \in [1..D -> 0..MaxPoints - 1] :
                        \A d \in 1..D : p[d] < shape[d]}

Derivs == [space_order : 1..MaxOrder,
           dims : SUBSET Range(space_dimensions) \ {{}}]

\* ----------------------------------------------------------- ModifiedSkin
\* The geometry's boundary points are distinct points of the grid, listed
\* in index order; the interior mask is any boolean array of the grid's shape.
InitSkin ==
    /\ grid_shape \in GridShapes
    /\ \E B \in SUBSET GridPoints(grid_shape) :
          /\ Cardinality(B) <= MaxBP
          /\ boundary_points = SortedCols(B)
    /\ interior_mask \in [GridPoints(grid_shape) -> BOOLEAN]
    /\ deriv \in Derivs
    /\ fp = <<>>
    /\ mp = <<>>
    /\ dim = 0
    /\ mod_points = Unset
    /\ skin_pc = "footprint"
    /\ BCIdle
    /\ GroupIdle

\* lines 49-50
GetFootprint ==
    /\ skin_pc = "footprint"
    /\ fp' = stencil_footprint(deriv)
    /\ skin_pc' = "broadcast"
    /\ UNCHANGED <<grid_shape, boundary_points, interior_mask, deriv, mp, dim,
                   mod_points,
                   bcVars, groupVars>>

\* lines 53-54
Broadcast ==
    /\ skin_pc = "broadcast"
    /\ mp' = BroadcastSum(boundary_points, fp)
    /\ skin_pc' = "unique"
    /\ UNCHANGED <<grid_shape, boundary_points, interior_mask, deriv, fp, dim,
                   mod_points,
                   bcVars, groupVars>>

\* line 57
FilterDuplicates ==
    /\ skin_pc = "unique"
    /\ mp' = Unique(mp)
    /\ dim' = 1
    /\ skin_pc' = "trim"
    /\ UNCHANGED <<grid_shape, boundary_points, interior_mask, deriv, fp,
                   mod_points,
                   bcVars, groupVars>>

\* lines 61-63, one iteration
TrimStep ==
    /\ skin_pc = "trim"
    /\ dim <= D
    /\ mp' = Trim(mp, dim, grid_shape)
    /\ dim' = dim + 1
    /\ UNCHANGED <<grid_shape, boundary_points, interior_mask, deriv, fp,
                   mod_points, skin_pc,
                   bcVars, groupVars>>

\* lines 66-68
IntersectInterior ==
    /\ skin_pc = "trim"
    /\ dim > D
    /\ IF CanIndex(mp, grid_shape)
       THEN /\ mp' = InteriorFilter(mp, interior_mask, grid_shape)
            /\ skin_pc' = "store"
       ELSE /\ mp' = mp
            /\ skin_pc' = "IndexError"
    /\ UNCHANGED <<grid_shape, boundary_points, interior_mask, deriv, fp, dim,
                   mod_points,
                   bcVars, groupVars>>

\* line 70
StorePoints ==
    /\ skin_pc = "store"
    /\ mod_points' = Some(RowsOf(mp))
    /\ skin_pc' = "done"
    /\ UNCHANGED <<grid_shape, boundary_points, interior_mask, deriv, fp, mp,
                   dim,
                   bcVars, groupVars>>

NextSkin ==
    \/ GetFootprint
    \/ Broadcast
    \/ FilterDuplicates
    \/ TrimStep
    \/ IntersectInterior
    \/ StorePoints

SpecSkin == InitSkin /\ [][NextSkin]_vars

\* ------------------------------------------------------ BoundaryCondition
\* The fields an equation may mention: f and g are TimeFunctions, c is a
\* Function that does not depend on time (a coefficient).
Fields == {"f", "g", "c"}
TimeDependent == {"f", "g"}

\* A derivative's expr that is no Function: a product, a nested derivative
NonFunction == "f.dx"

\* all orderings of a set: tuple(set(...)) fixes no order
TuplesOf(S) == {t \in [1..Cardinality(S) -> S] : Range(t) = S}

\* line 65: self.rhs != 0
RhsRaisesNever(e) == FALSE

RhsRaises(e) == e.rhs # 0

\* lines 73-84: the set handed to tuple(); all_funcs is the list
\* retrieve_functions(self.lhs) returns, duplicates included
SelectedFuncs(e, funcs) ==
    IF funcs = None
    THEN {func \in Range(e.lhs) : func \in TimeDependent}
    ELSE Range(e.lhs) \cap Range(Val(funcs))

\* lines 93-106: the checks of one derivative against self.funcs
DerivRaisesNonFunctionOnly(dv, funcs) == dv.expr \notin Fields

DerivRaises(dv, funcs) ==
    \/ dv.expr \notin Fields           \* not isinstance(deriv.expr, Function)
    \/ dv.expr \notin Range(funcs)     \* not (deriv.expr in self.funcs)

\* line 102: dims.update(deriv.dims)
DimsUpdateReplace(acc, dv) == dv.dims

DimsUpdate(acc, dv) == acc \cup dv.dims

\* lines 108-111: the values self._dims may take
FinalDims(acc) ==
    IF Cardinality(acc) = 0 THEN {None} ELSE {Some(t) : t \in TuplesOf(acc)}

\* the equations: a right-hand side (0 or not), the list of fields that
\* retrieve_functions finds in the left-hand side, and the set of
\* derivatives lhs.find(Derivative) returns; the field a derivative
\* differentiates is one of the fields of the left-hand side
DerivExprs == Fields \cup {NonFunction}

AllDerivs == [expr : DerivExprs, dims : SUBSET Range(space_dimensions) \ {{}}]

LhsLists == UNION {[1..n -> Fields] : n \in 0..MaxTerms}

Equations ==
    {e \in [rhs : {0, 1}, lhs : LhsLists, derivs : SUBSET AllDerivs] :
        /\ Cardinality(e.derivs) <= MaxDerivs
        /\ \A dv \in e.derivs : dv.expr \in Fields => dv.expr \in Range(e.lhs)}

\* the funcs argument: None, or the tuple BoundaryConditions made of a set
FuncsArgs == {None} \cup {Some(t) : t \in UNION {TuplesOf(S) : S \in SUBSET Fields}}

InitBC ==
    /\ eq \in Equations
    /\ funcs_arg \in FuncsArgs
    /\ bc_funcs = Unset
    /\ bc_dims = Unset
    /\ derivs_left = {}
    /\ dims_acc = {}
    /\ bc_pc = "parse_rhs"
    /\ SkinIdle
    /\ GroupIdle

\* lines 42, 63-66
ParseRhs ==
    /\ bc_pc = "parse_rhs"
    /\ bc_pc' = IF RhsRaises(eq) THEN "NotImplementedError" ELSE "get_functions"
    /\ UNCHANGED <<eq, funcs_arg, bc_funcs, bc_dims, derivs_left, dims_acc,
                   skinVars, groupVars>>

\* lines 44, 68-84
GetFunctions ==
    /\ bc_pc = "get_functions"
    /\ \E t \in TuplesOf(SelectedFuncs(eq, funcs_arg)) : bc_funcs' = Some(t)
    /\ bc_pc' = "find_derivs"
    /\ UNCHANGED <<eq, funcs_arg, bc_dims, derivs_left, dims_acc,
                   skinVars, groupVars>>

\* lines 89-90
FindDerivs ==
    /\ bc_pc = "find_derivs"
    /\ derivs_left' = eq.derivs
    /\ dims_acc' = {}
    /\ bc_pc' = "derivs"
    /\ UNCHANGED <<eq, funcs_arg, bc_funcs, bc_dims,
                   skinVars, groupVars>>

\* lines 91-106, one iteration; a set is iterated in no fixed order
DerivStep ==
    /\ bc_pc = "derivs"
    /\ \E dv \in derivs_left :
          /\ derivs_left' = derivs_left \ {dv}
          /\ IF DerivRaises(dv, Val(bc_funcs))
             THEN /\ bc_pc' = "NotImplementedError"
                  /\ dims_acc' = dims_acc
             ELSE /\ bc_pc' = bc_pc
                  /\ dims_acc' = DimsUpdate(dims_acc, dv)
    /\ UNCHANGED <<eq, funcs_arg, bc_funcs, bc_dims,
                   skinVars, groupVars>>

\* lines 108-111
SetDims ==
    /\ bc_pc = "derivs"
    /\ derivs_left = {}
    /\ bc_dims' \in FinalDims(dims_acc)
    /\ bc_pc' = "done"
    /\ UNCHANGED <<eq, funcs_arg, bc_funcs, derivs_left, dims_acc,
                   skinVars, groupVars>>

NextBC ==
    \/ ParseRhs
    \/ GetFunctions
    \/ FindDerivs
    \/ DerivStep
    \/ SetDims

SpecBC == InitBC /\ [][NextBC]_vars

\* ----------------------------------------------------- BoundaryConditions
\* line 260: the edges between the first function and all others
StarEdgesFirstPair(funcs) ==
    IF Len(funcs) >= 2 THEN {{funcs[1], funcs[2]}} ELSE {}

StarEdges(funcs) == {{funcs[1], funcs[k]} : k \in 2..Len(funcs)}

\* nx.Graph.add_nodes_from: new nodes are appended in the order given
RECURSIVE AddNodes(_, _)
AddNodes(nodes, funcs) ==
    IF funcs = <<>> THEN nodes
    ELSE AddNodes(IF Head(funcs) \in Range(nodes) THEN nodes
                  ELSE Append(nodes, Head(funcs)),
                  Tail(funcs))

\* lines 257-261, for one bc
AddBc(graph, bc) ==
    [nodes |-> AddNodes(graph.nodes, bc.funcs),
     edges |-> graph.edges \cup StarEdges(bc.funcs)]

\* the nodes that share an edge with a node of S
Neighbours(S, edges) == {v \in UNION edges : \E e \in edges : v \in e /\ e \cap S # {}}

\* networkx's _plain_bfs: every node reachable from S
ReachableOneStep(S, edges) == S \cup Neighbours(S, edges)

RECURSIVE Reachable(_, _)
Reachable(S, edges) ==
    LET N == S \cup Neighbours(S, edges)
    IN  IF N = S THEN S ELSE Reachable(N, edges)

\* nx.connected_components: the component of each node not yet seen, nodes
\* taken in insertion order
RECURSIVE ComponentsFrom(_, _, _)
ComponentsFrom(nodes, seen, edges) ==
    IF nodes = <<>> THEN <<>>
    ELSE IF Head(nodes) \in seen THEN ComponentsFrom(Tail(nodes), seen, edges)
    ELSE LET c == Reachable({Head(nodes)}, edges)
         IN  <<c>> \o ComponentsFrom(Tail(nodes), seen \cup c, edges)

connected_components(graph) == ComponentsFrom(graph.nodes, {}, graph.edges)

\* line 264: tuple(group) of each component; a set is listed in no fixed order
GroupTuples(comps) ==
    {t \in [1..Len(comps) -> UNION {TuplesOf(comps[i]) : i \in 1..Len(comps)}] :
        \A i \in 1..Len(comps) : Range(t[i]) = comps[i]}

\* line 269: bc.funcs[0] raises IndexError on an empty tuple
ConditionsRaise(conds) == \E i \in 1..Len(conds) : Len(conds[i].funcs) = 0

\* line 269: [bc for bc in self.bcs if bc.funcs[0] in group]
ConditionsOf(conds, group) ==
    SelectSeq(conds, LAMBDA bc : bc.funcs[1] \in Range(group))

\* line 270
ConditionGroup(conditions, funcs) == [conds |-> conditions, funcs |-> funcs]

\* lines 272-273: the keys assigned for one group
FMapKeysFirst(group) == IF group = <<>> THEN {} ELSE {group[1]}

FMapKeys(group) == Range(group)

\* lines 272-273: f_map[func] = new_group for each func of the group
FMapUpdate(fm, group, new_group) ==
    [func \in DOMAIN fm \cup FMapKeys(group) |->
        IF func \in FMapKeys(group) THEN new_group ELSE fm[func]]

\* The equations given to BoundaryConditions.  Each mentions a set of
\* fields once each, as in Eq(f + g, 0); an equation of a single field may
\* instead have a nonzero right-hand side, Eq(f, 1), or be a derivative of
\* the field, Eq(f.dx, 0).
Canon(S) == CHOOSE t \in TuplesOf(S) : TRUE

GroupEquations ==
    [rhs : {0}, lhs : {Canon(S) : S \in SUBSET Fields}, derivs : {{}}]
    \cup [rhs : {1}, lhs : {<<func>> : func \in Fields}, derivs : {{}}]
    \cup {[rhs |-> 0, lhs |-> <<func>>,
           derivs |-> {[expr |-> func, dims |-> {space_dimensions[1]}]}] :
            func \in Fields}

InitGroup ==
    /\ in_eqs \in {E \in SUBSET GroupEquations : Cardinality(E) <= MaxEqs}
    /\ in_funcs \in {None} \cup {Some(S) : S \in SUBSET Fields}
    /\ self_funcs = Unset
    /\ self_eqs = Unset
    /\ bcs_acc = <<>>
    /\ bcs = Unset
    /\ f_graph = Unset
    /\ f_groups = Unset
    /\ bc_groups = Unset
    /\ f_map = Unset
    /\ g_i = 0
    /\ g_pc = "flatten_functions"
    /\ BCIdle
    /\ SkinIdle

\* lines 209, 219-230
FlattenFunctions ==
    /\ g_pc = "flatten_functions"
    /\ IF in_funcs = None
       THEN self_funcs' = None
       ELSE \E t \in TuplesOf(Val(in_funcs)) : self_funcs' = Some(t)
    /\ g_pc' = "flatten_equations"
    /\ UNCHANGED <<in_eqs, in_funcs, self_eqs, bcs_acc, bcs, f_graph, f_groups,
                   bc_groups, f_map, g_i, skinVars, bcVars>>

\* lines 211, 232-245: tuple(eq_set)
FlattenEquations ==
    /\ g_pc = "flatten_equations"
    /\ \E t \in TuplesOf(in_eqs) : self_eqs' = Some(t)
    /\ bcs_acc' = <<>>
    /\ g_i' = 1
    /\ g_pc' = "setup_bcs"
    /\ UNCHANGED <<in_eqs, in_funcs, self_funcs, bcs, f_graph, f_groups,
                   bc_groups, f_map, skinVars, bcVars>>

\* line 249, lines 39-40: BoundaryCondition(eq, funcs=self.funcs) starts
BeginBC ==
    /\ g_pc = "setup_bcs"
    /\ bc_pc = "idle"
    /\ g_i <= Len(Val(self_eqs))
    /\ eq' = Val(self_eqs)[g_i]
    /\ funcs_arg' = self_funcs
    /\ bc_funcs' = Unset
    /\ bc_dims' = Unset
    /\ derivs_left' = {}
    /\ dims_acc' = {}
    /\ bc_pc' = "parse_rhs"
    /\ UNCHANGED <<skinVars, groupVars>>

\* line 249: the constructed BoundaryCondition joins the list
EndBC ==
    /\ g_pc = "setup_bcs"
    /\ bc_pc = "done"
    /\ bcs_acc' = Append(bcs_acc,
                         [eq |-> eq, funcs |-> Val(bc_funcs), dims |-> bc_dims])
    /\ g_i' = g_i + 1
    /\ bc_pc' = "idle"
    /\ UNCHANGED <<in_eqs, in_funcs, self_funcs, self_eqs, bcs, f_graph,
                   f_groups, bc_groups, f_map, g_pc, skinVars,
                   eq, funcs_arg, bc_funcs, bc_dims, derivs_left, dims_acc>>

\* line 249: an error of BoundaryCondition leaves _setup_bcs and __init__
RaiseBC ==
    /\ g_pc = "setup_bcs"
    /\ bc_pc = "NotImplementedError"
    /\ g_pc' = "NotImplementedError"
    /\ UNCHANGED <<in_eqs, in_funcs, self_funcs, self_eqs, bcs_acc, bcs,
                   f_graph, f_groups, bc_groups, f_map, g_i, skinVars, bcVars>>

\* lines 249-250 and 255: self._bcs is assigned, _group_bcs starts
StoreBcs ==
    /\ g_pc = "setup_bcs"
    /\ bc_pc = "idle"
    /\ g_i > Len(Val(self_eqs))
    /\ bcs' = Some(bcs_acc)
    /\ f_graph' = [nodes |-> <<>>, edges |-> {}]
    /\ g_i' = 1
    /\ g_pc' = "graph"
    /\ UNCHANGED <<in_eqs, in_funcs, self_funcs, self_eqs, bcs_acc, f_groups,
                   bc_groups, f_map, skinVars, bcVars>>

\* lines 256-261, one iteration
GraphStep ==
    /\ g_pc = "graph"
    /\ g_i <= Len(Val(bcs))
    /\ f_graph' = AddBc(f_graph, Val(bcs)[g_i])
    /\ g_i' = g_i + 1
    /\ UNCHANGED <<in_eqs, in_funcs, self_funcs, self_eqs, bcs_acc, bcs,
                   f_groups, bc_groups, f_map, g_pc, skinVars, bcVars>>

\* lines 264-267
Components ==
    /\ g_pc = "graph"
    /\ g_i > Len(Val(bcs))
    /\ f_groups' \in GroupTuples(connected_components(f_graph))
    /\ bc_groups' = <<>>
    /\ f_map' = <<>>
    /\ g_i' = 1
    /\ g_pc' = "groups"
    /\ UNCHANGED <<in_eqs, in_funcs, self_funcs, self_eqs, bcs_acc, bcs,
                   f_graph, skinVars, bcVars>>

\* lines 268-273, one iteration
GroupStep ==
    /\ g_pc = "groups"
    /\ g_i <= Len(f_groups)
    /\ IF ConditionsRaise(Val(bcs))
       THEN /\ g_pc' = "IndexError"
            /\ UNCHANGED <<bc_groups, f_map, g_i>>
       ELSE LET group == f_groups[g_i]
                new_group == ConditionGroup(ConditionsOf(Val(bcs), group), group)
            IN  /\ bc_groups' = Append(bc_groups, new_group)
                /\ f_map' = FMapUpdate(f_map, group, new_group)
                /\ g_i' = g_i + 1
                /\ g_pc' = g_pc
    /\ UNCHANGED <<in_eqs, in_funcs, self_funcs, self_eqs, bcs_acc, bcs,
                   f_graph, f_groups, skinVars, bcVars>>

\* line 274
PrintMap ==
    /\ g_pc = "groups"
    /\ g_i > Len(f_groups)
    /\ g_pc' = "done"
    /\ UNCHANGED <<in_eqs, in_funcs, self_funcs, self_eqs, bcs_acc, bcs,
                   f_graph, f_groups, bc_groups, f_map, g_i, skinVars, bcVars>>

NextGroup ==
    \/ FlattenFunctions
    \/ FlattenEquations
    \/ BeginBC
    \/ ParseRhs
    \/ GetFunctions
    \/ FindDerivs
    \/ DerivStep
    \/ SetDims
    \/ EndBC
    \/ RaiseBC
    \/ StoreBcs
    \/ GraphStep
    \/ Components
    \/ GroupStep
    \/ PrintMap

SpecGroup == InitGroup /\ [][NextGroup]_vars

\* ======================================================================
\* Properties of ModifiedSkin and stencil_footprint (SpecSkin)
\* ======================================================================
SkinDone == skin_pc = "done"
FootprintKnown == skin_pc \notin {"idle", "footprint"}

\* column c of the stored tuple of index arrays
ModPoint(c) == [d \in 1..D |-> Val(mod_points)[d][c]]
NumModPoints == Len(Val(mod_points)[1])

InGrid(p) == \A d \in 1..D : 0 <= p[d] /\ p[d] < grid_shape[d]

\* every sum of a boundary point and a footprint offset
Candidates ==
    {[d \in 1..D |-> b[d] + o[d]] : b \in Range(boundary_points), o \in Range(fp)}

\* C1: every point of modified_points has, on every axis d, an index in
\* [0, grid.shape[d]) and is classified interior by interior_mask.
C1_PointsInBoundsAndInterior ==
    SkinDone =>
        \A c \in 1..NumModPoints :
            InGrid(ModPoint(c)) /\ interior_mask[ModPoint(c)]

\* a finished skin that kept a point while the bounds trim and the interior
\* filter each removed one
C1_Witness ==
    /\ SkinDone
    /\ NumModPoints > 0
    /\ \E p \in Candidates : ~InGrid(p)
    /\ \E p \in Candidates : InGrid(p) /\ ~interior_mask[p]

\* C2: modified_points is exactly the set of sums b + o, b a boundary point
\* and o a footprint column, that are in bounds and interior: each of them
\* is present, nothing else is, and no point appears twice.
C2_ExactlyTheClippedInteriorSums ==
    /\ skin_pc # "IndexError"
    /\ SkinDone =>
        LET pts == {ModPoint(c) : c \in 1..NumModPoints}
        IN  /\ \A d \in 1..D : Len(Val(mod_points)[d]) = NumModPoints
            /\ pts = {p \in Candidates : InGrid(p) /\ interior_mask[p]}
            /\ Cardinality(pts) = NumModPoints

\* a finished skin of several points where two boundary points gave the same
\* sum, and points were dropped by the trim and by the filter
C2_Witness ==
    /\ SkinDone
    /\ NumModPoints > 1
    /\ Len(boundary_points) * Len(fp) > Cardinality(Candidates)
    /\ \E p \in Candidates : ~InGrid(p)
    /\ \E p \in Candidates : InGrid(p) /\ ~interior_mask[p]
    /\ grid_shape[1] # grid_shape[2]

DiffAxes == {d \in 1..D : space_dimensions[d] \in deriv.dims}

\* C6: for an even space order p the footprint's columns are exactly the
\* Cartesian product of the per-axis spans, -p/2..p/2 on a differentiated
\* axis and 0 on any other, row d holding the offsets of axis d; there are
\* (p+1)^(number of differentiated axes) columns and none repeats.
C6_EvenOrderFootprintIsProduct ==
    (FootprintKnown /\ deriv.space_order % 2 = 0) =>
        LET h == deriv.space_order \div 2
            AxisSpan(d) == IF d \in DiffAxes THEN (-h)..h ELSE {0}
        IN  /\ Range(fp) = {o \in [1..D -> (-h)..h] :
                               \A d \in 1..D : o[d] \in AxisSpan(d)}
            /\ Len(fp) = Power(deriv.space_order + 1, Cardinality(DiffAxes))
            /\ Cardinality(Range(fp)) = Len(fp)

\* the footprint of an even-order derivative taken along both axes
C6_Witness ==
    /\ FootprintKnown
    /\ deriv.space_order % 2 = 0
    /\ Cardinality(DiffAxes) = D
    /\ Len(fp) = Power(deriv.space_order + 1, D)

\* C7: for every space order s_o >= 1, odd orders included, the offsets of
\* the footprint along a differentiated axis are exactly
\* -floor(s_o/2) .. floor(s_o/2).
C7_SpanSymmetricForEveryOrder ==
    FootprintKnown =>
        \A d \in DiffAxes :
            {fp[k][d] : k \in 1..Len(fp)} =
                (-(deriv.space_order \div 2))..(deriv.space_order \div 2)

\* no sum of a boundary point and a footprint offset is an interior point of
\* the grid: the geometry has no boundary points, or the bounds trim and the
\* interior filter remove every candidate
NoSkinPoint ==
    \/ boundary_points = <<>>
    \/ /\ FootprintKnown
       /\ \A p \in Candidates : ~(InGrid(p) /\ interior_mask[p])

EmptySkin == [d \in 1..D |-> <<>>]

\* C11: when the geometry has no boundary points, or when the bounds trim
\* and the interior filter remove every candidate point, the construction
\* of ModifiedSkin raises nothing: it is at one of its steps or at its end,
\* and at its end modified_points is D empty index arrays.
C11_DegenerateGeometryGivesEmptySkin ==
    NoSkinPoint =>
        /\ skin_pc \in {"footprint", "broadcast", "unique", "trim", "store",
                        "done"}
        /\ SkinDone => mod_points = Some(EmptySkin)

\* a finished, empty skin of a geometry that has interior points and no
\* boundary point
C11_Witness ==
    /\ SkinDone
    /\ boundary_points = <<>>
    /\ \E p \in GridPoints(grid_shape) : interior_mask[p]
    /\ mod_points = Some(EmptySkin)

\* a finished, empty skin of a geometry with boundary points: the trim
\* removed some candidates and the interior filter the rest
C11_WitnessAllRemoved ==
    /\ SkinDone
    /\ boundary_points # <<>>
    /\ mod_points = Some(EmptySkin)
    /\ \E p \in Candidates : ~InGrid(p)
    /\ \E p \in Candidates : InGrid(p)
    /\ \E p \in GridPoints(grid_shape) : interior_mask[p]

\* the points of the stored skin, and the points interior_mask marks
SkinPoints == {ModPoint(c) : c \in 1..NumModPoints}
InteriorPoints == {p \in GridPoints(grid_shape) : interior_mask[p]}

\* C12 as stated: for any grid and any geometry the skin is a proper subset
\* of the interior points: every skin point is interior and at least one
\* interior point is not in modified_points.
C12_SkinIsProperSubsetOfInterior ==
    SkinDone =>
        /\ SkinPoints \subseteq InteriorPoints
        /\ \E p \in InteriorPoints : p \notin SkinPoints

\* C12 as amended: every skin point is an interior point of the grid, and
\* the skin leaves out an interior point exactly when some interior point
\* is not the sum of a boundary point and a footprint offset; otherwise the
\* skin is the whole set of interior points.
C12_SkinIsSubsetProperIffUncovered ==
    SkinDone =>
        /\ SkinPoints \subseteq InteriorPoints
        /\ (SkinPoints # InteriorPoints) <=>
              (\E p \in InteriorPoints : p \notin Candidates)

\* a finished skin of a grid of several points that holds every interior
\* point, while the interior filter removed a candidate
C12_Witness ==
    /\ SkinDone
    /\ Prod(grid_shape) > 1
    /\ InteriorPoints # {}
    /\ SkinPoints = InteriorPoints
    /\ \E p \in Candidates : InGrid(p) /\ ~interior_mask[p]

\* ======================================================================
\* Properties of BoundaryCondition (SpecBC, and SpecGroup which constructs
\* one BoundaryCondition per equation)
\* ======================================================================
BCDone == bc_pc = "done"

\* C8: an equation whose right-hand side is not zero fails before field
\* selection and dimension discovery run; no BoundaryCondition comes of it
\* and BoundaryConditions gets neither a conditions list nor groups.
C8_NonzeroRhsFailsFirst ==
    /\ (bc_pc # "idle" /\ eq.rhs # 0) =>
          /\ bc_pc \in {"parse_rhs", "NotImplementedError"}
          /\ bc_funcs = Unset
          /\ bc_dims = Unset
    /\ (g_pc # "idle" /\ \E e \in in_eqs : e.rhs # 0) =>
          /\ bcs = Unset
          /\ g_pc \in {"flatten_functions", "flatten_equations", "setup_bcs",
                       "NotImplementedError"}
          /\ \A i \in 1..Len(bcs_acc) : bcs_acc[i].eq.rhs = 0

\* BoundaryConditions failed on an equation with a nonzero right-hand side
\* after it had built the condition of an earlier equation
C8_Witness ==
    /\ g_pc = "NotImplementedError"
    /\ bc_pc = "NotImplementedError"
    /\ eq.rhs # 0
    /\ Len(bcs_acc) >= 1
    /\ bcs = Unset

\* the fields the claim calls selected
SelectedOf(e, funcs) ==
    {func \in Range(e.lhs) :
        IF funcs = None THEN func \in TimeDependent
        ELSE func \in Range(Val(funcs))}

UnsupportedDeriv(dv) ==
    dv.expr \notin Fields \/ dv.expr \notin SelectedOf(eq, funcs_arg)

\* C9: construction fails whenever the left-hand side holds a derivative of
\* something that is no bare field, or of a field outside the selected set;
\* so in a constructed BoundaryCondition every derivative differentiates a
\* member of funcs.
C9_UnsupportedDerivativeFails ==
    /\ (bc_pc # "idle" /\ \E dv \in eq.derivs : UnsupportedDeriv(dv)) => ~BCDone
    /\ BCDone =>
          /\ Range(Val(bc_funcs)) = SelectedOf(eq, funcs_arg)
          /\ \A dv \in eq.derivs : dv.expr \in Range(Val(bc_funcs))

\* a construction that failed on the derivative of a field of the left-hand
\* side which the whitelist excludes, after a supported derivative passed
C9_Witness ==
    /\ bc_pc = "NotImplementedError"
    /\ eq.rhs = 0
    /\ funcs_arg # None
    /\ dims_acc # {}
    /\ \E dv \in eq.derivs :
          dv.expr \in Range(eq.lhs) /\ dv.expr \notin Range(Val(bc_funcs))

\* C10: dims is None exactly when the left-hand side holds no derivative;
\* otherwise dims lists the union of the derivatives' axes, each axis once.
C10_DimsIsUnionOfAxes ==
    BCDone =>
        /\ (bc_dims = None) <=> (eq.derivs = {})
        /\ bc_dims # None =>
              /\ Range(Val(bc_dims)) = UNION {dv.dims : dv \in eq.derivs}
              /\ Len(Val(bc_dims)) = Cardinality(Range(Val(bc_dims)))

\* a condition built from two derivatives along different single axes
C10_Witness ==
    /\ BCDone
    /\ bc_dims # None
    /\ Len(Val(bc_dims)) = 2
    /\ \A dv \in eq.derivs : Cardinality(dv.dims) = 1
    /\ Cardinality(eq.derivs) = 2

\* ======================================================================
\* Properties of the grouping of BoundaryConditions (SpecGroup)
\* ======================================================================
GroupDone == g_pc = "done"
Conds == Val(bcs)
FieldSet(bc) == Range(bc.funcs)
AllCondFields == UNION {FieldSet(Conds[i]) : i \in 1..Len(Conds)}

\* union-find over the fields: each condition's whole field set is united
UniteSet(P, S) ==
    LET hit == {B \in P : B \cap S # {}}
    IN  IF hit = {} THEN P ELSE (P \ hit) \cup {UNION hit}

RECURSIVE UniteAll(_, _)
UniteAll(P, conds) ==
    IF conds = <<>> THEN P
    ELSE UniteAll(UniteSet(P, FieldSet(Head(conds))), Tail(conds))

UnionFindPartition == UniteAll({{func} : func \in AllCondFields}, Conds)

\* conditions linked to condition i by a chain of conditions sharing fields
RECURSIVE ChainFrom(_)
ChainFrom(I) ==
    LET N == I \cup {k \in 1..Len(Conds) :
                        \E i \in I : FieldSet(Conds[i]) \cap FieldSet(Conds[k]) # {}}
    IN  IF N = I THEN I ELSE ChainFrom(N)

InSameGroup(i, j) ==
    \E n \in 1..Len(bc_groups) :
        /\ Conds[i] \in Range(bc_groups[n].conds)
        /\ Conds[j] \in Range(bc_groups[n].conds)

GroupSet(groups) ==
    {[funcs |-> Range(groups[n].funcs),
      conds |-> {groups[n].conds[k].eq : k \in 1..Len(groups[n].conds)}] :
        n \in 1..Len(groups)}

\* the grouping of the same equations taken in one fixed order, the fields
\* of each condition in one fixed order
RECURSIVE GraphOf(_, _)
GraphOf(graph, conds) ==
    IF conds = <<>> THEN graph
    ELSE GraphOf(AddBc(graph, Head(conds)), Tail(conds))

FixedOrderConds ==
    LET eqs == Canon(in_eqs)
    IN  [i \in 1..Len(eqs) |->
            [eq |-> eqs[i], funcs |-> Canon(SelectedFuncs(eqs[i], self_funcs))]]

FixedOrderComponents ==
    connected_components(GraphOf([nodes |-> <<>>, edges |-> {}], FixedOrderConds))

FixedOrderRaises ==
    Len(FixedOrderComponents) > 0 /\ ConditionsRaise(FixedOrderConds)

FixedOrderGroups ==
    [n \in 1..Len(FixedOrderComponents) |->
        ConditionGroup(ConditionsOf(FixedOrderConds, Canon(FixedOrderComponents[n])),
                       Canon(FixedOrderComponents[n]))]

\* C4: whatever the order of the equations and of the fields inside each
\* condition's funcs, _group_bcs ends the same way, and its groups are the
\* same set of field sets, each with the same member conditions.
C4_GroupingIsOrderIndependent ==
    /\ g_pc = "IndexError" => FixedOrderRaises
    /\ GroupDone =>
          /\ ~FixedOrderRaises
          /\ GroupSet(bc_groups) = GroupSet(FixedOrderGroups)

\* a finished grouping whose equations and whose star root differ from the
\* fixed order's
C4_Witness ==
    /\ GroupDone
    /\ Val(self_eqs) # Canon(in_eqs)
    /\ \E i \in 1..Len(Conds) :
          /\ Len(Conds[i].funcs) = 3
          /\ Conds[i].funcs[1] # Canon(FieldSet(Conds[i]))[1]
    /\ Len(bc_groups) >= 1

GroupsOf(i) == {n \in 1..Len(bc_groups) : Conds[i] \in Range(bc_groups[n].conds)}

\* C13: for every list of equations that each pass BoundaryCondition
\* construction, a condition of no field included, the grouping completes;
\* every condition is a member of exactly one group, whose funcs hold all of
\* the condition's fields; and the members of a group are the conditions
\* whose field set intersects the group's fields.
C13_GroupingCompletesAndPartitions ==
    /\ g_pc # "IndexError"
    /\ GroupDone =>
          /\ \A i \in 1..Len(Conds) :
                /\ Cardinality(GroupsOf(i)) = 1
                /\ \A n \in GroupsOf(i) :
                      FieldSet(Conds[i]) \subseteq Range(bc_groups[n].funcs)
          /\ \A n \in 1..Len(bc_groups) :
                Range(bc_groups[n].conds) =
                    {Conds[i] : i \in {k \in 1..Len(Conds) :
                        FieldSet(Conds[k]) \cap Range(bc_groups[n].funcs) # {}}}

====
